---- MODULE Spec2Model ----
(***************************************************************************)
(* Model of apifetch: ApiFetcher.request_url (the retry / backoff / budget *)
(* loop), ApiFetcher._request_url_once (one transport attempt under the    *)
(* kill timeout), LocalGCRA.is_rejected (the rate limiter) and the status  *)
(* classification at the end of the loop body.                             *)
(*                                                                         *)
(* Spec is the call made without a recorder (log is None), each attempt    *)
(* one step.  SpecScoped takes _request_url_once statement by statement,   *)
(* with the SIGALRM timer of SignalTimeout and, when log is given, the     *)
(* recorder's dump and dump_failed.  SpecGCRA is a LocalGCRA used alone.   *)
(*                                                                         *)
(* Time is counted in milliseconds: a Python float of x seconds is the     *)
(* integer 1000 * x.  The kill timeout stays in whole seconds, as          *)
(* signal.alarm takes it.  Python's None is the empty sequence and a value *)
(* x that may be None is <<x>>.  Strings that the code slices (status code *)
(* strings) are sequences of one-character strings.                        *)
(***************************************************************************)
EXTENDS Integers, Sequences, FiniteSets, TLC

VARIABLES
    strategy,          \* the RequestStrategy given to ApiFetcher.__init__
    gcra,              \* the LocalGCRA instance: limit (tat), emission_interval
    clock,             \* time.perf_counter(), ms
    pc,                \* position of request_url
    tries,             \* local tries
    start_ts,          \* local start_ts
    new_kill_timeout,  \* local new_kill_timeout, seconds
    res,               \* local res: result of rate_limiter.is_rejected()
    r,                 \* local r: None or <<status_code>>
    exc,               \* exception in flight inside the try block
    result,            \* what request_url gave its caller
    sent,              \* history: calls of _request_url_once started
    backoffs,          \* history: arguments of time.sleep at line 89
    waits,             \* history: rate limiter sleeps started (line 133)
    consults,          \* history: calls of rate_limiter.is_rejected
    checks,            \* history: the calls of is_rejected on a limiter used alone
    log,               \* request_url's log argument: a recorder is attached
    mask_raises,       \* a rule of the recorder's request header filter raises
                       \* on a header of the request
    frame,             \* the recorder's bytearr, as the sequence of its parts
    alarm,             \* the process's SIGALRM timer: None or <<time it fires>>
    fired,             \* history: SignalTimeout._timeout ran in this attempt
    timed_out,         \* local timed_out of _request_url_once
    resp,              \* local r of _request_url_once: None or <<status_code>>
    hops,              \* len(r.history): redirects followed by the transport
    config,            \* how the last call of a setter of the strategy ended
    stack,             \* HeaderFilter.stack, the class attribute: a list of rules
    added,             \* history: the rules added through each HeaderFilter instance
    written,           \* history: the last header _write_headers wrote, if any
    last_start,        \* history: when the last transport call started, if any
    page_num,          \* LinkPaginator.page_num
    keep_going,        \* LinkPaginator.keep_going
    nb_dl,             \* LinkPaginator.nb_dl
    yielded            \* history: what PaginatedFetcher.request_url yielded

\* the state the steps of request_url's loop never touch
masks == <<stack, added, written>>

pager == <<page_num, keep_going, nb_dl, yielded>>

unpaged == <<checks, log, mask_raises, frame, alarm, fired, timed_out, resp,
             hops, config, masks>>

quiet == <<unpaged, pager>>

aux == <<quiet, last_start>>

vars == <<strategy, gcra, clock, pc, tries, start_ts, new_kill_timeout, res, r,
          exc, result, sent, backoffs, waits, consults, aux>>

-----------------------------------------------------------------------------
(* Bounds of the model *)

MaxTries == 3

\* calls of is_rejected on a limiter used alone
MaxChecks == 4

\* perf_counter() and time() - jan_1_2020 differ by a fixed offset (ms)
WallOffset == 5000

-----------------------------------------------------------------------------
(* Python values *)

None == <<>>

Some(x) == <<x>>

Val(o) == o[1]

\* truth value of an optional number, as in "if self.strategy.total_time"
Truthy(o) == o # None /\ Val(o) # 0

Max(a, b) == IF a >= b THEN a ELSE b

Min(a, b) == IF a <= b THEN a ELSE b

\* math.ceil of x milliseconds, in seconds
CeilSeconds(x) == -((-x) \div 1000)

\* round(x, 2) of a non-negative duration of x ms: the nearest 10 ms; a tie
\* goes to the even multiple, as for a float that holds the tie exactly
Round2(x) ==
    LET q == x \div 10
        m == x % 10
    IN  IF m < 5 THEN 10 * q
        ELSE IF m > 5 THEN 10 * (q + 1)
        ELSE IF q % 2 = 0 THEN 10 * q ELSE 10 * (q + 1)

RECURSIVE Pow(_, _)
Pow(b, e) == IF e = 0 THEN 1 ELSE b * Pow(b, e - 1)

Digits == <<"0", "1", "2", "3", "4", "5", "6", "7", "8", "9">>

\* str(n) of a non-negative int
RECURSIVE Str(_)
Str(n) == IF n < 10 THEN <<Digits[n + 1]>>
          ELSE Str(n \div 10) \o <<Digits[(n % 10) + 1]>>

\* s[a:b] of a string
Slice(s, a, b) == SubSeq(s, a + 1, Min(b, Len(s)))

-----------------------------------------------------------------------------
(* Exceptions and results *)

NoResult == [kind |-> "none", why |-> "", n |-> 0]

Returned(status) == [kind |-> "return", why |-> "", n |-> status]

\* RequestFailure(message): why names the message, n the number it reports
RequestFailure(why, n) == [kind |-> "RequestFailure", why |-> why, n |-> n]

RequestTimeout(t) == [kind |-> "RequestTimeout", why |-> "killed", n |-> t]

RequestException == [kind |-> "RequestException", why |-> "transport", n |-> 0]

HTTPError(status) == [kind |-> "HTTPError", why |-> "status", n |-> status]

\* log.py line 206: what a masking rule raises on a header value it cannot
\* handle (mask_authorization on a bytes value: value.split(" ", 1))
TypeError == [kind |-> "TypeError", why |-> "mask", n |-> 0]

\* request.py lines 136-137
SignalTimeoutException == [kind |-> "SignalTimeoutException", why |-> "", n |-> 0]

-----------------------------------------------------------------------------
(* The inputs *)

\* status codes a response can carry; 0 is a falsy status_code
Statuses == {0, 200, 404, 503}

\* time a transport call can take before it returns or fails, ms
Durations == {3, 900}

\* time a sleep or a step can take beyond what was asked, ms
Overshoots == {0, 7}

TotalTimes == {None, Some(0), Some(1010), Some(2000)}

KillTimeouts == {0, 1, 10}

Backoffs == {<<500, 2>>, <<100, 3>>}

CodeSets ==
    { <<{}, {}>>,
      <<{<<"4", "0", "4">>}, {<<"4", "x", "x">>, <<"5", "0", "x">>}>> }

EmissionIntervals == {1000}

\* time the process spends between two statements of _request_url_once, ms
Stalls == {0, 100}

\* redirects the transport followed before the final response
Hops == {0, 2}

\* emission intervals of a limiter used alone, ms (6 s: 10 per minute)
GcraIntervals == {1000, 6000}

\* time between two calls of is_rejected on a limiter used alone, ms
Gaps == {0, 3, 6, 997, 1000, 6000}

\* the stored tat when the call starts: none, in the past, in the future
Limits == {None, Some(WallOffset - 1000), Some(WallOffset + 1980),
           Some(WallOffset + 2500)}

-----------------------------------------------------------------------------
(* LocalGCRA.is_rejected *)

\* time.time() - jan_1_2020, ms
Now == clock + WallOffset

\* is_rejected storing the new tat on a rejection too
is_rejectedStoreOnReject(g, now) ==
    LET tat == IF g.limit = None THEN now ELSE Val(g.limit)
        allow_at == Max(tat, now)
        new_tat == allow_at + g.emission_interval
        diff == now - allow_at
    IN  IF diff < 0
        THEN [rejected |-> TRUE, retry_after |-> Round2(-1 * diff), limit |-> Some(new_tat)]
        ELSE [rejected |-> FALSE, retry_after |-> -1, limit |-> Some(new_tat)]

\* is_rejected with the new tat counted from the stored tat (credit for idle time)
is_rejectedBurst(g, now) ==
    LET tat == IF g.limit = None THEN now ELSE Val(g.limit)
        new_tat == tat + g.emission_interval
        diff == now - tat
    IN  IF diff < 0
        THEN [rejected |-> TRUE, retry_after |-> Round2(-1 * diff), limit |-> g.limit]
        ELSE [rejected |-> FALSE, retry_after |-> -1, limit |-> Some(new_tat)]

is_rejected(g, now) ==
    LET tat == IF g.limit = None THEN now ELSE Val(g.limit)
        allow_at == Max(tat, now)
        new_tat == allow_at + g.emission_interval
        diff == now - allow_at
    IN  IF diff < 0
        THEN [rejected |-> TRUE, retry_after |-> Round2(-1 * diff), limit |-> g.limit]
        ELSE [rejected |-> FALSE, retry_after |-> -1, limit |-> Some(new_tat)]

-----------------------------------------------------------------------------
(* The classification of a response, request_url lines 170-186 *)

\* the classification with the fatal codes looked at before the normal codes
ClassifyFatalFirst(status, normal_codes, fatal_codes) ==
    IF status >= 400 /\ status < 600
    THEN IF \/ Str(status) \in fatal_codes
            \/ Slice(Str(status), 0, 2) \o <<"x">> \in fatal_codes
            \/ Slice(Str(status), 0, 1) \o <<"x", "x">> \in fatal_codes
         THEN "Fatal"
         ELSE IF Str(status) \in normal_codes THEN "Success" ELSE "Retry"
    ELSE "Success"

Classify(status, normal_codes, fatal_codes) ==
    IF status >= 400 /\ status < 600 /\ Str(status) \notin normal_codes
    THEN IF \/ Str(status) \in fatal_codes
            \/ Slice(Str(status), 0, 2) \o <<"x">> \in fatal_codes
            \/ Slice(Str(status), 0, 1) \o <<"x", "x">> \in fatal_codes
         THEN "Fatal"
         ELSE "Retry"
    ELSE "Success"

\* the except clauses with RequestFailure caught like the retryable errors
HandlerRetryAll(e) == "continue"

\* the except clauses with RequestTimeout left out of the retryable errors
HandlerRaiseTimeout(e) ==
    IF e.kind \in {"RequestFailure", "RequestTimeout"} THEN "raise" ELSE "continue"

\* the except clauses of request_url: what becomes of an exception of the try block
Handler(e) ==
    IF e.kind \in {"RequestTimeout", "RequestException"} THEN "continue" ELSE "raise"

-----------------------------------------------------------------------------
(* request_url *)

Elapsed == clock - start_ts

\* line 64, with an off-by-one: one more pass of the loop
LoopConditionInclusive == tries <= strategy.tries

\* line 64
LoopCondition == tries < strategy.tries

\* line 68 without the skip of the first power: x^0 for the first retry
ToSleepFromZero == strategy.backoff_mul * Pow(strategy.backoff_exp, tries - 1)

\* line 68
ToSleep == strategy.backoff_mul * Pow(strategy.backoff_exp, tries)

\* lines 72-78
BackoffOverBudget ==
    Truthy(strategy.total_time) /\ Val(strategy.total_time) - Elapsed - ToSleep <= 0

\* line 95
MaxTimeLeft == Val(strategy.total_time) - Elapsed

\* lines 94, 98
SendOverBudget == Truthy(strategy.total_time) /\ MaxTimeLeft <= 0

\* lines 93-107
NewKillTimeout ==
    IF Truthy(strategy.total_time)
    THEN CeilSeconds(Min(MaxTimeLeft, 1000 * strategy.kill_timeout_s))
    ELSE strategy.kill_timeout_s

\* lines 116-122
WaitOverBudget(w) ==
    Truthy(strategy.total_time) /\ Val(strategy.total_time) - Elapsed - w <= 0

\* line 134: the padding added to the rate limiter's retry-after, ms
Padding == 50

\* the HeaderFilter instances: the recorder's request_header_filter and
\* response_header_filter
Filters == {"request", "response"}

AuxInit ==
    /\ checks = <<>>
    /\ log = FALSE
    /\ mask_raises = FALSE
    /\ frame = <<>>
    /\ alarm = None
    /\ fired = FALSE
    /\ timed_out = TRUE
    /\ resp = None
    /\ hops = 0
    /\ config = "none"
    /\ stack = <<>>
    /\ added = [i \in Filters |-> <<>>]
    /\ written = None
    /\ last_start = None
    /\ page_num = 0
    /\ keep_going = TRUE
    /\ nb_dl = 0
    /\ yielded = <<>>

Init ==
    /\ strategy \in
         { [tries |-> t, total_time |-> tt, kill_timeout_s |-> k,
            backoff_mul |-> b[1], backoff_exp |-> b[2],
            normal_codes |-> c[1], fatal_codes |-> c[2], rate_limiter |-> rl] :
           t \in 0..MaxTries, tt \in TotalTimes, k \in KillTimeouts,
           b \in Backoffs, c \in CodeSets, rl \in BOOLEAN }
    /\ gcra \in { [limit |-> l, emission_interval |-> ei] :
                  l \in IF strategy.rate_limiter THEN Limits ELSE {None},
                  ei \in EmissionIntervals }
    /\ clock = 0
    /\ pc = "idle"
    /\ tries = 0
    /\ start_ts = 0
    /\ new_kill_timeout = 0
    /\ res = [rejected |-> FALSE, retry_after |-> -1]
    /\ r = None
    /\ exc = NoResult
    /\ result = NoResult
    /\ sent = 0
    /\ backoffs = <<>>
    /\ waits = 0
    /\ consults = 0
    /\ AuxInit

\* lines 60-63: the call starts
RequestUrl ==
    /\ pc = "idle"
    /\ pc' = "while"
    /\ tries' = 0
    /\ start_ts' = clock
    /\ UNCHANGED <<strategy, gcra, clock, new_kill_timeout, res, r, exc, result,
                   sent, backoffs, waits, consults, aux>>

\* lines 189-191 with the message of the total timeout (line 100) copied
WhileExitTimeoutMessage ==
    /\ pc = "while"
    /\ ~LoopCondition
    /\ result' = RequestFailure("reached", strategy.tries)
    /\ pc' = "done"
    /\ UNCHANGED <<strategy, gcra, clock, tries, start_ts, new_kill_timeout, res,
                   r, exc, sent, backoffs, waits, consults, aux>>

\* line 64 false, lines 189-191
WhileExit ==
    /\ pc = "while"
    /\ ~LoopCondition
    /\ result' = RequestFailure("tries", strategy.tries)
    /\ pc' = "done"
    /\ UNCHANGED <<strategy, gcra, clock, tries, start_ts, new_kill_timeout, res,
                   r, exc, sent, backoffs, waits, consults, aux>>

\* line 64 true, line 67 false
WhileFirst ==
    /\ pc = "while"
    /\ LoopCondition
    /\ ~(tries > 0)
    /\ pc' = "budget"
    /\ UNCHANGED <<strategy, gcra, clock, tries, start_ts, new_kill_timeout, res,
                   r, exc, result, sent, backoffs, waits, consults, aux>>

\* lines 67-83: the backoff would reach the total timeout
BackoffRaise ==
    /\ pc = "while"
    /\ LoopCondition
    /\ tries > 0
    /\ BackoffOverBudget
    /\ result' = RequestFailure("backoff", Val(strategy.total_time))
    /\ pc' = "done"
    /\ UNCHANGED <<strategy, gcra, clock, tries, start_ts, new_kill_timeout, res,
                   r, exc, sent, backoffs, waits, consults, aux>>

\* lines 67-89: the backoff sleep
BackoffSleep ==
    /\ pc = "while"
    /\ LoopCondition
    /\ tries > 0
    /\ ~BackoffOverBudget
    /\ backoffs' = Append(backoffs, ToSleep)
    /\ \E o \in Overshoots : clock' = clock + ToSleep + o
    /\ pc' = "budget"
    /\ UNCHANGED <<strategy, gcra, tries, start_ts, new_kill_timeout, res, r, exc,
                   result, sent, waits, consults, aux>>

\* lines 91-103: no time left
BudgetRaise ==
    /\ pc = "budget"
    /\ tries' = tries + 1
    /\ new_kill_timeout' = strategy.kill_timeout_s
    /\ SendOverBudget
    /\ exc' = RequestFailure("reached", Val(strategy.total_time))
    /\ pc' = "except"
    /\ UNCHANGED <<strategy, gcra, clock, start_ts, res, r, result, sent, backoffs,
                   waits, consults, aux>>

\* lines 91-107 with the iteration going on when no time is left
BudgetPassUnchecked ==
    /\ pc = "budget"
    /\ tries' = tries + 1
    /\ new_kill_timeout' = NewKillTimeout
    /\ pc' = "limiter"
    /\ UNCHANGED <<strategy, gcra, clock, start_ts, res, r, exc, result, sent,
                   backoffs, waits, consults, aux>>

\* lines 91-107 with the kill timeout of this try stored in the strategy
BudgetPassStoresKill ==
    /\ pc = "budget"
    /\ tries' = tries + 1
    /\ ~SendOverBudget
    /\ new_kill_timeout' = NewKillTimeout
    /\ strategy' = [strategy EXCEPT !.kill_timeout_s = NewKillTimeout]
    /\ pc' = "limiter"
    /\ UNCHANGED <<gcra, clock, start_ts, res, r, exc, result, sent,
                   backoffs, waits, consults, aux>>

\* lines 91-107: the kill timeout of this try
BudgetPass ==
    /\ pc = "budget"
    /\ tries' = tries + 1
    /\ ~SendOverBudget
    /\ new_kill_timeout' = NewKillTimeout
    /\ pc' = "limiter"
    /\ UNCHANGED <<strategy, gcra, clock, start_ts, res, r, exc, result, sent,
                   backoffs, waits, consults, aux>>

\* line 111 false
LimiterNone ==
    /\ pc = "limiter"
    /\ ~strategy.rate_limiter
    /\ pc' = "send"
    /\ UNCHANGED <<strategy, gcra, clock, tries, start_ts, new_kill_timeout, res,
                   r, exc, result, sent, backoffs, waits, consults, aux>>

\* lines 111-113: the limiter lets the request go
LimiterAllowed ==
    /\ pc = "limiter"
    /\ strategy.rate_limiter
    /\ LET v == is_rejected(gcra, Now)
       IN  /\ ~v.rejected
           /\ res' = [rejected |-> v.rejected, retry_after |-> v.retry_after]
           /\ gcra' = [gcra EXCEPT !.limit = v.limit]
    /\ consults' = consults + 1
    /\ pc' = "send"
    /\ UNCHANGED <<strategy, clock, tries, start_ts, new_kill_timeout, r, exc,
                   result, sent, backoffs, waits, aux>>

\* lines 111-127: the wait would reach the total timeout
LimiterRaise ==
    /\ pc = "limiter"
    /\ strategy.rate_limiter
    /\ LET v == is_rejected(gcra, Now)
       IN  /\ v.rejected
           /\ WaitOverBudget(v.retry_after)
           /\ res' = [rejected |-> v.rejected, retry_after |-> v.retry_after]
           /\ gcra' = [gcra EXCEPT !.limit = v.limit]
    /\ consults' = consults + 1
    /\ exc' = RequestFailure("rate_limiter", Val(strategy.total_time))
    /\ pc' = "except"
    /\ UNCHANGED <<strategy, clock, tries, start_ts, new_kill_timeout, r, result,
                   sent, backoffs, waits, aux>>

\* lines 111-135 with the iteration given up after the wait
LimiterSleepContinue ==
    /\ pc = "limiter"
    /\ strategy.rate_limiter
    /\ LET v == is_rejected(gcra, Now)
       IN  /\ v.rejected
           /\ ~WaitOverBudget(v.retry_after)
           /\ res' = [rejected |-> v.rejected, retry_after |-> v.retry_after]
           /\ gcra' = [gcra EXCEPT !.limit = v.limit]
           /\ \E o \in Overshoots : clock' = clock + v.retry_after + Padding + o
    /\ consults' = consults + 1
    /\ waits' = waits + 1
    /\ pc' = "while"
    /\ UNCHANGED <<strategy, tries, start_ts, new_kill_timeout, r, exc, result,
                   sent, backoffs, aux>>

\* lines 111-135: the wait the limiter asks for, and the padding
LimiterSleep ==
    /\ pc = "limiter"
    /\ strategy.rate_limiter
    /\ LET v == is_rejected(gcra, Now)
       IN  /\ v.rejected
           /\ ~WaitOverBudget(v.retry_after)
           /\ res' = [rejected |-> v.rejected, retry_after |-> v.retry_after]
           /\ gcra' = [gcra EXCEPT !.limit = v.limit]
           /\ \E o \in Overshoots : clock' = clock + v.retry_after + Padding + o
    /\ consults' = consults + 1
    /\ waits' = waits + 1
    /\ pc' = "send"
    /\ UNCHANGED <<strategy, tries, start_ts, new_kill_timeout, r, exc, result,
                   sent, backoffs, aux>>

\* whether a transport call of d ms ends before the alarm of the kill timeout
\* (signal.alarm(0) sets no alarm)
BeforeAlarm(d) == new_kill_timeout = 0 \/ d < 1000 * new_kill_timeout

\* lines 140-148, 250-283: the transport answers
SendResponse ==
    /\ pc = "send"
    /\ sent' = sent + 1
    /\ last_start' = Some(clock)
    /\ \E d \in Durations, s \in Statuses :
         /\ BeforeAlarm(d)
         /\ clock' = clock + d
         /\ r' = Some(s)
    /\ pc' = "classify"
    /\ UNCHANGED <<strategy, gcra, tries, start_ts, new_kill_timeout, res, exc,
                   result, backoffs, waits, consults, quiet>>

\* lines 140-148, 272-277: the transport raises (connection error, ...)
SendError ==
    /\ pc = "send"
    /\ sent' = sent + 1
    /\ last_start' = Some(clock)
    /\ \E d \in Durations :
         /\ BeforeAlarm(d)
         /\ clock' = clock + d
    /\ exc' = RequestException
    /\ pc' = "except"
    /\ UNCHANGED <<strategy, gcra, tries, start_ts, new_kill_timeout, res, r,
                   result, backoffs, waits, consults, quiet>>

\* lines 140-148, 258-270: the alarm fires first
SendTimeout ==
    /\ pc = "send"
    /\ sent' = sent + 1
    /\ last_start' = Some(clock)
    /\ new_kill_timeout > 0
    /\ clock' = clock + 1000 * new_kill_timeout
    /\ exc' = RequestTimeout(new_kill_timeout)
    /\ pc' = "except"
    /\ UNCHANGED <<strategy, gcra, tries, start_ts, new_kill_timeout, res, r,
                   result, backoffs, waits, consults, quiet>>

\* lines 149-150
ExceptRaise ==
    /\ pc = "except"
    /\ Handler(exc) = "raise"
    /\ result' = exc
    /\ pc' = "done"
    /\ UNCHANGED <<strategy, gcra, clock, tries, start_ts, new_kill_timeout, res,
                   r, exc, sent, backoffs, waits, consults, aux>>

\* lines 151-157 with the failed try counted once more
ExceptContinueCounting ==
    /\ pc = "except"
    /\ Handler(exc) = "continue"
    /\ exc' = NoResult
    /\ tries' = tries + 1
    /\ pc' = "while"
    /\ UNCHANGED <<strategy, gcra, clock, start_ts, new_kill_timeout, res,
                   r, result, sent, backoffs, waits, consults, aux>>

\* lines 151-157 with the failed try taken back from the count
ExceptContinueUncounted ==
    /\ pc = "except"
    /\ Handler(exc) = "continue"
    /\ exc' = NoResult
    /\ tries' = tries - 1
    /\ pc' = "while"
    /\ UNCHANGED <<strategy, gcra, clock, start_ts, new_kill_timeout, res,
                   r, result, sent, backoffs, waits, consults, aux>>

\* lines 151-157
ExceptContinue ==
    /\ pc = "except"
    /\ Handler(exc) = "continue"
    /\ exc' = NoResult
    /\ pc' = "while"
    /\ UNCHANGED <<strategy, gcra, clock, tries, start_ts, new_kill_timeout, res,
                   r, result, sent, backoffs, waits, consults, aux>>

\* lines 159-164: a response without a status code
ClassifyWeird ==
    /\ pc = "classify"
    /\ Val(r) = 0
    /\ pc' = "while"
    /\ UNCHANGED <<strategy, gcra, clock, tries, start_ts, new_kill_timeout, res,
                   r, exc, result, sent, backoffs, waits, consults, aux>>

\* lines 170-186: success
ClassifySuccess ==
    /\ pc = "classify"
    /\ Val(r) # 0
    /\ Classify(Val(r), strategy.normal_codes, strategy.fatal_codes) = "Success"
    /\ result' = Returned(Val(r))
    /\ pc' = "done"
    /\ UNCHANGED <<strategy, gcra, clock, tries, start_ts, new_kill_timeout, res,
                   r, exc, sent, backoffs, waits, consults, aux>>

\* lines 170-181: fatal, r.raise_for_status()
ClassifyFatal ==
    /\ pc = "classify"
    /\ Val(r) # 0
    /\ Classify(Val(r), strategy.normal_codes, strategy.fatal_codes) = "Fatal"
    /\ result' = HTTPError(Val(r))
    /\ pc' = "done"
    /\ UNCHANGED <<strategy, gcra, clock, tries, start_ts, new_kill_timeout, res,
                   r, exc, sent, backoffs, waits, consults, aux>>

\* lines 170-183: retry
ClassifyRetry ==
    /\ pc = "classify"
    /\ Val(r) # 0
    /\ Classify(Val(r), strategy.normal_codes, strategy.fatal_codes) = "Retry"
    /\ pc' = "while"
    /\ UNCHANGED <<strategy, gcra, clock, tries, start_ts, new_kill_timeout, res,
                   r, exc, result, sent, backoffs, waits, consults, aux>>

Next ==
    \/ RequestUrl
    \/ WhileExit
    \/ WhileFirst
    \/ BackoffRaise
    \/ BackoffSleep
    \/ BudgetRaise
    \/ BudgetPass
    \/ LimiterNone
    \/ LimiterAllowed
    \/ LimiterRaise
    \/ LimiterSleep
    \/ SendResponse
    \/ SendError
    \/ SendTimeout
    \/ ExceptRaise
    \/ ExceptContinue
    \/ ClassifyWeird
    \/ ClassifySuccess
    \/ ClassifyFatal
    \/ ClassifyRetry

Spec == Init /\ [][Next]_vars

\* the calls made with a total time budget other than 0
InitPositiveBudget == Init /\ Truthy(strategy.total_time)

SpecPositiveBudget == InitPositiveBudget /\ [][Next]_vars

\* the calls made with a total time budget other than 0 and no rate limiter
InitNoLimiter == Init /\ Truthy(strategy.total_time) /\ ~strategy.rate_limiter

NextNoLimiter ==
    \/ RequestUrl
    \/ WhileExit
    \/ WhileFirst
    \/ BackoffRaise
    \/ BackoffSleep
    \/ BudgetRaise
    \/ BudgetPass
    \/ LimiterNone
    \/ SendResponse
    \/ SendError
    \/ SendTimeout
    \/ ExceptRaise
    \/ ExceptContinue
    \/ ClassifyWeird
    \/ ClassifySuccess
    \/ ClassifyFatal
    \/ ClassifyRetry

SpecNoLimiter == InitNoLimiter /\ [][NextNoLimiter]_vars

-----------------------------------------------------------------------------
(* The classification alone: a response has just come back (request_url   *)
(* line 159), for every status and every pair of code lists of the         *)
(* universes below.                                                        *)

ClassifyStatuses == {0, 99, 200, 399, 400, 404, 409, 451, 499, 500, 503, 599, 600, 1000}

NormalUniverse == {<<"4", "0", "4">>, <<"5", "0", "0">>, <<"5", "0", "3">>}

FatalUniverse == {<<"4", "0", "4">>, <<"4", "0", "x">>, <<"4", "x", "x">>,
                  <<"5", "0", "0">>, <<"5", "0", "x">>, <<"5", "x", "x">>}

InitClassify ==
    /\ strategy \in
         { [tries |-> 1, total_time |-> None, kill_timeout_s |-> 10,
            backoff_mul |-> 500, backoff_exp |-> 2,
            normal_codes |-> nc, fatal_codes |-> fc, rate_limiter |-> FALSE] :
           nc \in SUBSET NormalUniverse, fc \in SUBSET FatalUniverse }
    /\ gcra = [limit |-> None, emission_interval |-> 1000]
    /\ clock = 3
    /\ pc = "classify"
    /\ tries = 1
    /\ start_ts = 0
    /\ new_kill_timeout = 10
    /\ res = [rejected |-> FALSE, retry_after |-> -1]
    /\ r \in {Some(s) : s \in ClassifyStatuses}
    /\ exc = NoResult
    /\ result = NoResult
    /\ sent = 1
    /\ backoffs = <<>>
    /\ waits = 0
    /\ consults = 0
    /\ AuxInit

NextClassify ==
    \/ ClassifyWeird
    \/ ClassifySuccess
    \/ ClassifyFatal
    \/ ClassifyRetry

SpecClassify == InitClassify /\ [][NextClassify]_vars

-----------------------------------------------------------------------------
(* Properties of request_url *)

Exhausted == result.kind = "RequestFailure" /\ result.why = "tries"

BudgetExhausted ==
    result.kind = "RequestFailure" /\ result.why \in {"backoff", "reached", "rate_limiter"}

\* the budget is set: max_total_time was given a value
BudgetSet == strategy.total_time # None

\* C1: one call starts at most maxTries transport attempts; an attempt is
\* started only while the attempts already made are fewer than maxTries; the
\* attempts are numbered from 1 and the counter grows by one per attempt.
C1_AtMostMaxTries ==
    /\ [](/\ sent <= strategy.tries
          /\ (pc = "send" => sent < strategy.tries /\ tries = sent + 1)
          /\ (pc \in {"while", "classify", "done"} /\ ~BudgetExhausted => tries = sent))
    /\ [][/\ sent' # sent => (sent' = sent + 1 /\ tries = sent' /\ tries' = tries)
          /\ tries' # tries => tries' = tries + 1]_vars

C1_Witness == pc = "send" /\ sent = 2 /\ strategy.tries = 3

\* C2: a Success returns the response of that attempt, a Fatal raises its
\* HTTP error, a RequestFailure raised in the try block reaches the caller
\* as it is; after any of them no sleep, limiter consult or attempt happens.
C2_TerminalIsFinal ==
    /\ [](result.kind \in {"none", "return", "HTTPError", "RequestFailure"})
    /\ [](pc = "done" <=> result # NoResult)
    /\ [][/\ (pc = "classify" /\ Val(r) # 0
              /\ Classify(Val(r), strategy.normal_codes, strategy.fatal_codes) = "Success")
                => (pc' = "done" /\ result' = Returned(Val(r)))
          /\ (pc = "classify" /\ Val(r) # 0
              /\ Classify(Val(r), strategy.normal_codes, strategy.fatal_codes) = "Fatal")
                => (pc' = "done" /\ result' = HTTPError(Val(r)))
          /\ (pc = "except" /\ exc.kind = "RequestFailure")
                => (pc' = "done" /\ result' = exc)
          /\ (result # NoResult)
                => (/\ result' = result
                    /\ sent' = sent
                    /\ backoffs' = backoffs
                    /\ waits' = waits
                    /\ consults' = consults
                    /\ clock' = clock)]_vars

C2_Witness ==
    /\ result.kind = "RequestFailure"
    /\ result.why = "reached"
    /\ tries < strategy.tries
    /\ sent = 1

\* the three digits of a status code of 100..999, as the code strings spell them
ClaimDigit(d) == Digits[d + 1]

ClaimCode(status) ==
    <<ClaimDigit(status \div 100), ClaimDigit((status \div 10) % 10),
      ClaimDigit(status % 10)>>

ClaimSuccess(status, normal_codes) ==
    status < 400 \/ status >= 600 \/ ClaimCode(status) \in normal_codes

ClaimFatal(status, normal_codes, fatal_codes) ==
    /\ ~ClaimSuccess(status, normal_codes)
    /\ \/ ClaimCode(status) \in fatal_codes
       \/ <<ClaimDigit(status \div 100), ClaimDigit((status \div 10) % 10), "x">>
            \in fatal_codes
       \/ <<ClaimDigit(status \div 100), "x", "x">> \in fatal_codes

\* what request_url did with the response it classified
Outcome ==
    IF result.kind = "return" THEN "Success"
    ELSE IF result.kind = "HTTPError" THEN "Fatal"
    ELSE "Retry"

\* C3: the classification is a function of (status, normalCodes, fatalCodes):
\* Success outside [400,600) or with the code among the normal codes, else
\* Fatal on an exact, a DDx or a Dxx match of the fatal codes, else Retry.
C3_Classification ==
    (pc # "classify" /\ Val(r) # 0) =>
        LET status == Val(r)
            nc == strategy.normal_codes
            fc == strategy.fatal_codes
        IN  /\ Outcome = "Success" <=> ClaimSuccess(status, nc)
            /\ Outcome = "Fatal" <=> ClaimFatal(status, nc, fc)
            /\ Outcome = "Retry" <=> ~ClaimSuccess(status, nc) /\ ~ClaimFatal(status, nc, fc)
            /\ (status = 404 /\ nc = {<<"4", "0", "4">>}) => Outcome = "Success"
            /\ (status = 500 /\ nc = {} /\ fc = {<<"5", "x", "x">>}) => Outcome = "Fatal"
            /\ (status = 503 /\ nc = {} /\ fc = {<<"5", "0", "0">>}) => Outcome = "Retry"

C3_Witness ==
    /\ pc = "done"
    /\ r = Some(404)
    /\ <<"4", "0", "4">> \in strategy.normal_codes
    /\ <<"4", "x", "x">> \in strategy.fatal_codes
    /\ result = Returned(404)

\* C4: no sleep before attempt 1; before attempt k+1 the sleep is
\* backoffMultiplier x backoffExponent^k; with 0.5, 2 and 3 tries that all
\* fail retryably the sleeps are 1.0 and 2.0 and the failure reports 3 tries.
C4_BackoffSchedule ==
    /\ \A k \in 1..Len(backoffs) :
         backoffs[k] = strategy.backoff_mul * Pow(strategy.backoff_exp, k)
    /\ (pc \in {"limiter", "send"} => Len(backoffs) = tries - 1)
    /\ (sent = 0 => backoffs = <<>>)
    /\ (/\ Exhausted
        /\ strategy.backoff_mul = 500
        /\ strategy.backoff_exp = 2
        /\ strategy.tries = 3)
         => (backoffs = <<1000, 2000>> /\ result.n = 3)

C4_Witness ==
    /\ Exhausted
    /\ strategy.tries = 3
    /\ backoffs = <<1000, 2000>>
    /\ sent = 3

\* math.ceil of x ms in seconds, for x > 0: the least t with 1000 * t >= x
ClaimCeil(x) == CHOOSE t \in 0..((x \div 1000) + 1) : 1000 * t >= x /\ 1000 * (t - 1) < x

\* C5: with maxTotalTime set, remainingBudget = maxTotalTime - elapsed is
\* computed before each attempt; <= 0 fails as BudgetExhausted without sending,
\* otherwise the attempt's kill timeout is ceil(min(remainingBudget, killTimeout)),
\* never above killTimeout; with maxTotalTime not set it is killTimeout.
C5_PreSendBudgetCheck ==
    [][pc = "budget" =>
         IF BudgetSet
         THEN LET remainingBudget == Val(strategy.total_time) - (clock - start_ts)
              IN  IF remainingBudget <= 0
                  THEN /\ pc' = "except"
                       /\ exc'.kind = "RequestFailure"
                       /\ sent' = sent
                  ELSE /\ pc' = "limiter"
                       /\ new_kill_timeout' =
                            ClaimCeil(Min(remainingBudget, 1000 * strategy.kill_timeout_s))
                       /\ new_kill_timeout' <= strategy.kill_timeout_s
         ELSE /\ pc' = "limiter"
              /\ new_kill_timeout' = strategy.kill_timeout_s]_vars

\* C6: with maxTotalTime set and maxTotalTime - elapsed - d <= 0 just before a
\* backoff sleep of d, the call fails as BudgetExhausted without sleeping and
\* without another attempt; otherwise it sleeps d and goes on.
C6_BackoffBudgetCheck ==
    [][(pc = "while" /\ tries < strategy.tries /\ tries > 0) =>
         LET d == strategy.backoff_mul * Pow(strategy.backoff_exp, tries)
         IN  IF BudgetSet /\ Val(strategy.total_time) - (clock - start_ts) - d <= 0
             THEN /\ pc' = "done"
                  /\ BudgetExhausted'
                  /\ clock' = clock
                  /\ backoffs' = backoffs
                  /\ sent' = sent
             ELSE /\ pc' = "budget"
                  /\ backoffs' = Append(backoffs, d)
                  /\ clock' >= clock + d]_vars

\* C7: with maxTotalTime set, no sleep, wait or attempt of a call is in
\* progress later than maxTotalTime after the call started.
C7_TotalBudgetCeiling ==
    (BudgetSet /\ pc # "idle") => clock - start_ts <= Val(strategy.total_time)

\* C8: on a rejection with retryAfter w and maxTotalTime set, the call fails as
\* BudgetExhausted without sleeping when remainingBudget - (w + pad) <= 0, and
\* otherwise sleeps w + pad: no limiter wait ends at or after the deadline.
C8_LimiterWaitBudgetCheck ==
    [][(pc = "limiter" /\ strategy.rate_limiter /\ is_rejected(gcra, Now).rejected) =>
         LET w == is_rejected(gcra, Now).retry_after
             remainingBudget == Val(strategy.total_time) - (clock - start_ts)
         IN  IF BudgetSet /\ remainingBudget - (w + Padding) <= 0
             THEN /\ pc' = "except"
                  /\ exc'.kind = "RequestFailure"
                  /\ clock' = clock
                  /\ waits' = waits
             ELSE /\ pc' = "send"
                  /\ waits' = waits + 1
                  /\ clock' >= clock + w + Padding]_vars

C10_ExhaustedCount ==
    /\ Exhausted => (sent = strategy.tries /\ result.n = sent /\ tries = sent)
    /\ (pc = "done" /\ ~Exhausted) =>
         (result.kind \in {"return", "HTTPError"} \/ BudgetExhausted)
    /\ (pc = "while" /\ sent = strategy.tries) => result = NoResult

C10_Witness ==
    /\ Exhausted
    /\ sent = 3
    /\ r = Some(503)

-----------------------------------------------------------------------------
(* The kinds of the terminal failures *)

\* how the last response of the call was classified; "Retry" when there was none
LastClass ==
    IF r = None \/ Val(r) = 0 THEN "Retry"
    ELSE Classify(Val(r), strategy.normal_codes, strategy.fatal_codes)

\* what ended the call, told from its counters and not from the error raised
FatalOccurred == pc = "done" /\ LastClass = "Fatal"

RetriesExhaustedOccurred ==
    pc = "done" /\ LastClass = "Retry" /\ tries = sent /\ sent = strategy.tries

BudgetExhaustedOccurred ==
    pc = "done" /\ LastClass = "Retry" /\ (tries > sent \/ tries < strategy.tries)

\* the exception class raised for retries exhausted (line 189) and for Fatal (line 181)
ExhaustedKind == RequestFailure("tries", 0).kind

FatalKind == HTTPError(0).kind

-----------------------------------------------------------------------------
(* LocalGCRA used alone: a fresh limiter, is_rejected called again and again *)

\* no request_url call is running: a strategy without limiter, nothing sent
NoCall ==
    /\ strategy = [tries |-> 1, total_time |-> None, kill_timeout_s |-> 0,
                   backoff_mul |-> 500, backoff_exp |-> 2,
                   normal_codes |-> {}, fatal_codes |-> {}, rate_limiter |-> FALSE]
    /\ pc = "idle"
    /\ tries = 0
    /\ start_ts = 0
    /\ new_kill_timeout = 0
    /\ r = None
    /\ exc = NoResult
    /\ result = NoResult
    /\ sent = 0
    /\ backoffs = <<>>
    /\ waits = 0

\* request.py lines 98-103: LocalGCRA(emission_interval)
InitGCRA ==
    /\ NoCall
    /\ gcra \in {[limit |-> None, emission_interval |-> ei] : ei \in GcraIntervals}
    /\ clock = 0
    /\ res = [rejected |-> FALSE, retry_after |-> -1]
    /\ consults = 0
    /\ AuxInit

\* request.py lines 105-130: is_rejected called at time now; the call and what
\* it returned are kept in checks
CheckAt(now) ==
    LET v == is_rejected(gcra, now)
    IN  /\ res' = [rejected |-> v.rejected, retry_after |-> v.retry_after]
        /\ gcra' = [gcra EXCEPT !.limit = v.limit]
        /\ checks' = Append(checks, [at |-> now, rejected |-> v.rejected,
                                     retry_after |-> v.retry_after,
                                     limit |-> v.limit])
        /\ consults' = consults + 1

\* the caller calls is_rejected some time after the call before
Check ==
    /\ Len(checks) < MaxChecks
    /\ \E d \in Gaps :
         /\ clock' = clock + d
         /\ CheckAt(Now + d)
    /\ UNCHANGED <<strategy, pc, tries, start_ts, new_kill_timeout, r, exc,
                   result, sent, backoffs, waits, log, mask_raises, frame,
                   alarm, fired, timed_out, resp, hops, config, masks, pager,
                   last_start>>

\* the caller was rejected, waits the retry-after it was given and calls again
CheckAfterWait ==
    /\ Len(checks) < MaxChecks
    /\ res.rejected
    /\ clock' = clock + res.retry_after
    /\ CheckAt(Now + res.retry_after)
    /\ UNCHANGED <<strategy, pc, tries, start_ts, new_kill_timeout, r, exc,
                   result, sent, backoffs, waits, log, mask_raises, frame,
                   alarm, fired, timed_out, resp, hops, config, masks, pager,
                   last_start>>

NextGCRA ==
    \/ Check
    \/ CheckAfterWait

SpecGCRA == InitGCRA /\ [][NextGCRA]_vars

\* the last Allowed call before call i, 0 when there is none
LastAllowed(i) ==
    LET before == {j \in 1..(i - 1) : ~checks[j].rejected}
    IN  IF before = {} THEN 0 ELSE CHOOSE j \in before : \A k \in before : k <= j

\* C12: is_rejected computes allowAt = max(tat or now, now) and
\* diff = now - allowAt; diff < 0 gives Rejected with retryAfter = -diff
\* rounded to 2 decimals and the stored tat unchanged, otherwise Allowed and
\* the stored tat becomes allowAt + emissionInterval; the emission interval
\* is never changed.
C12_GcraTransition ==
    [][consults' = consults + 1 =>
         LET now == Now'
             allowAt == IF gcra.limit = None THEN now ELSE Max(Val(gcra.limit), now)
             diff == now - allowAt
         IN  /\ diff < 0 =>
                  /\ res'.rejected
                  /\ res'.retry_after = Round2(0 - diff)
                  /\ gcra'.limit = gcra.limit
             /\ diff >= 0 =>
                  /\ ~res'.rejected
                  /\ gcra'.limit = Some(allowAt + gcra.emission_interval)
             /\ gcra'.emission_interval = gcra.emission_interval]_vars

C12_Witness ==
    /\ Len(checks) = 3
    /\ ~checks[1].rejected
    /\ checks[2].rejected /\ checks[2].limit = checks[1].limit
    /\ ~checks[3].rejected /\ checks[3].limit # checks[2].limit

\* C13: on one limiter called at non-decreasing times, the first call is
\* Allowed, a call at least emissionInterval after the last Allowed call is
\* Allowed, a call less than emissionInterval after it is Rejected, two
\* Allowed calls are at least emissionInterval apart, and the stored tat
\* never decreases.
C13_Pacing ==
    \A i \in 1..Len(checks) :
        LET m == LastAllowed(i)
        IN  /\ i = 1 => ~checks[i].rejected
            /\ m > 0 =>
                 /\ checks[i].at - checks[m].at >= gcra.emission_interval
                      => ~checks[i].rejected
                 /\ checks[i].at - checks[m].at < gcra.emission_interval
                      => checks[i].rejected
            /\ \A j \in 1..(i - 1) :
                 /\ checks[j].at <= checks[i].at
                 /\ (~checks[j].rejected /\ ~checks[i].rejected)
                      => checks[i].at - checks[j].at >= gcra.emission_interval
                 /\ Val(checks[j].limit) <= Val(checks[i].limit)

\* emission interval 6: Allowed, at once Rejected with 6 s to wait, Allowed 6 s later
C13_Witness ==
    /\ gcra.emission_interval = 6000
    /\ Len(checks) = 3
    /\ ~checks[1].rejected
    /\ checks[2].rejected /\ checks[2].at = checks[1].at
    /\ checks[2].retry_after = 6000
    /\ ~checks[3].rejected /\ checks[3].at = checks[1].at + 6000

\* C14: a Rejected call gives a retry-after that is strictly positive, and
\* the next call, made exactly that long after it, is Allowed.
C14_RetryAfterIsExact ==
    \A i \in 1..Len(checks) :
        checks[i].rejected =>
            /\ checks[i].retry_after > 0
            /\ (i < Len(checks)
                /\ checks[i + 1].at = checks[i].at + checks[i].retry_after)
                 => ~checks[i + 1].rejected

-----------------------------------------------------------------------------
(* _request_url_once step by step: the SignalTimeout scope and the recorder *)

\* log.py: one boundary-delimited part of the frame; attempt and hop tell
\* which request of the call the part is about
Part(type, k, i, body) == [type |-> type, attempt |-> k, hop |-> i, body |-> body]

\* log.py lines 322-337: _dump_one
dump_one(k, i) ==
    <<Part("request", k, i, "request"), Part("response", k, i, "response")>>

\* log.py lines 339-350: _dump_timer
dump_timer(k) == <<Part("timing-hint", k, 0, "timer")>>

\* log.py lines 181-185: the hops i..n of history, in order
RECURSIVE DumpHistory(_, _, _)
DumpHistory(k, i, n) ==
    IF i > n THEN <<>> ELSE dump_one(k, i) \o DumpHistory(k, i + 1, n)

\* log.py lines 173-187: dump of a response that followed n redirects
dump(f, k, n) == f \o DumpHistory(k, 1, n + 1) \o dump_timer(k)

\* log.py lines 149-171: dump_failed
dump_failed(f, k) ==
    f \o <<Part("request", k, 1, "request"), Part("response", k, 1, "exception")>>
      \o dump_timer(k)

\* log.py lines 254-269, 200-206: _dump_request_data up to the header on
\* which a masking rule raises: the request part is left unfinished
dump_cut(f, k) == f \o <<Part("request", k, 1, "cut")>>

\* the SIGALRM timer is set and goes off within the next st ms
Due(st) == alarm # None /\ clock + st >= Val(alarm)

\* the variables no step of _request_url_once changes
caller == <<strategy, gcra, tries, start_ts, new_kill_timeout, res, result,
            backoffs, waits, consults, checks, log, mask_raises, config,
            masks, pager>>

outside == <<caller, last_start>>

\* apifetch.py lines 250-258, request.py lines 143-147: the locals, the
\* SignalTimeout object and __enter__
OnceEnter ==
    /\ pc = "send"
    /\ sent' = sent + 1
    /\ timed_out' = TRUE
    /\ resp' = None
    /\ hops' = 0
    /\ fired' = FALSE
    /\ alarm' = IF new_kill_timeout = 0 THEN None
                ELSE Some(clock + 1000 * new_kill_timeout)
    /\ last_start' = Some(clock)
    /\ pc' = "body"
    /\ UNCHANGED <<caller, clock, r, exc, frame>>

\* line 263: s.send returns a response before the alarm
TransportResponse ==
    /\ pc = "body"
    /\ \E d \in Durations, s \in Statuses, h \in Hops :
         /\ ~Due(d)
         /\ clock' = clock + d
         /\ resp' = Some(s)
         /\ hops' = h
    /\ pc' = "assigned"
    /\ UNCHANGED <<outside, r, exc, sent, frame, alarm, fired, timed_out>>

\* line 263: s.send raises before the alarm
TransportError ==
    /\ pc = "body"
    /\ \E d \in Durations :
         /\ ~Due(d)
         /\ clock' = clock + d
    /\ exc' = RequestException
    /\ pc' = "exit"
    /\ UNCHANGED <<outside, r, sent, frame, alarm, fired, timed_out, resp, hops>>

\* line 263, request.py lines 139-141: the alarm goes off while s.send runs
AlarmInTransport ==
    /\ pc = "body"
    /\ alarm # None
    /\ clock' = Val(alarm)
    /\ alarm' = None
    /\ fired' = TRUE
    /\ exc' = SignalTimeoutException
    /\ pc' = "exit"
    /\ UNCHANGED <<outside, r, sent, frame, timed_out, resp, hops>>

\* line 267
FlagNotTimedOut ==
    /\ pc = "assigned"
    /\ \E st \in Stalls :
         /\ ~Due(st)
         /\ clock' = clock + st
    /\ timed_out' = FALSE
    /\ pc' = "exit"
    /\ UNCHANGED <<outside, r, exc, sent, frame, alarm, fired, resp, hops>>

\* the alarm goes off after line 263 and before line 267
AlarmBeforeFlag ==
    /\ pc = "assigned"
    /\ \E st \in Stalls : Due(st)
    /\ clock' = Val(alarm)
    /\ alarm' = None
    /\ fired' = TRUE
    /\ exc' = SignalTimeoutException
    /\ pc' = "exit"
    /\ UNCHANGED <<outside, r, sent, frame, timed_out, resp, hops>>

\* request.py lines 149-151 with the timer left set when an exception leaves the scope
ScopeExitKeepOnError ==
    /\ pc = "exit"
    /\ \E st \in Stalls :
         /\ ~Due(st)
         /\ clock' = clock + st
    /\ alarm' = IF exc = NoResult THEN None ELSE alarm
    /\ exc' = IF exc = SignalTimeoutException THEN NoResult ELSE exc
    /\ pc' = IF exc \in {NoResult, SignalTimeoutException} THEN "after" ELSE "failed"
    /\ UNCHANGED <<outside, r, sent, frame, fired, timed_out, resp, hops>>

\* request.py lines 149-151: __exit__ clears the timer and swallows the
\* SignalTimeoutException; line 269 comes next, or line 272 with another exception
ScopeExit ==
    /\ pc = "exit"
    /\ \E st \in Stalls :
         /\ ~Due(st)
         /\ clock' = clock + st
    /\ alarm' = None
    /\ exc' = IF exc = SignalTimeoutException THEN NoResult ELSE exc
    /\ pc' = IF exc \in {NoResult, SignalTimeoutException} THEN "after" ELSE "failed"
    /\ UNCHANGED <<outside, r, sent, frame, fired, timed_out, resp, hops>>

\* request.py lines 139-141, 149-150: the alarm goes off inside __exit__,
\* before signal.alarm(0); the exception leaves __exit__ and the with statement
AlarmInExit ==
    /\ pc = "exit"
    /\ \E st \in Stalls : Due(st)
    /\ clock' = Val(alarm)
    /\ alarm' = None
    /\ fired' = TRUE
    /\ exc' = SignalTimeoutException
    /\ pc' = "failed"
    /\ UNCHANGED <<outside, r, sent, frame, timed_out, resp, hops>>

\* lines 269-270
TimedOutRaise ==
    /\ pc = "after"
    /\ timed_out /\ resp = None
    /\ exc' = RequestTimeout(new_kill_timeout)
    /\ pc' = "failed"
    /\ UNCHANGED <<outside, clock, r, sent, frame, alarm, fired, timed_out, resp,
                   hops>>

\* lines 269, 279-281: recording the response raises
OnceReturnRecorderRaises ==
    /\ pc = "after"
    /\ ~(timed_out /\ resp = None)
    /\ log /\ mask_raises
    /\ frame' = dump_cut(frame, sent)
    /\ exc' = TypeError
    /\ pc' = "except"
    /\ UNCHANGED <<outside, clock, r, sent, alarm, fired, timed_out, resp, hops>>

\* lines 269, 279-283: the response is recorded and returned (line 140: r = ...)
OnceReturn ==
    /\ pc = "after"
    /\ ~(timed_out /\ resp = None)
    /\ ~(log /\ mask_raises)
    /\ frame' = IF log THEN dump(frame, sent, hops) ELSE frame
    /\ r' = resp
    /\ pc' = "classify"
    /\ UNCHANGED <<outside, clock, exc, sent, alarm, fired, timed_out, resp, hops>>

\* lines 272-276: recording the failure raises
OnceRaiseRecorderRaises ==
    /\ pc = "failed"
    /\ log /\ mask_raises
    /\ frame' = dump_cut(frame, sent)
    /\ exc' = TypeError
    /\ pc' = "except"
    /\ UNCHANGED <<outside, clock, r, sent, alarm, fired, timed_out, resp, hops>>

\* lines 272-277: the failure is recorded and the exception raised again
OnceRaise ==
    /\ pc = "failed"
    /\ ~(log /\ mask_raises)
    /\ frame' = IF log THEN dump_failed(frame, sent) ELSE frame
    /\ pc' = "except"
    /\ UNCHANGED <<outside, clock, r, exc, sent, alarm, fired, timed_out, resp,
                   hops>>

\* a call of request_url, with or without recorder
InitScoped ==
    /\ strategy \in
         { [tries |-> t, total_time |-> tt, kill_timeout_s |-> k,
            backoff_mul |-> 500, backoff_exp |-> 2,
            normal_codes |-> {<<"4", "0", "4">>}, fatal_codes |-> fc,
            rate_limiter |-> rl] :
           t \in 1..2, tt \in {None, Some(1010)}, k \in {0, 1},
           fc \in {{}, {<<"5", "0", "x">>}}, rl \in BOOLEAN }
    /\ gcra \in { [limit |-> l, emission_interval |-> 1000] :
                  l \in IF strategy.rate_limiter
                        THEN {None, Some(WallOffset + 1980)} ELSE {None} }
    /\ clock = 0
    /\ pc = "idle"
    /\ tries = 0
    /\ start_ts = 0
    /\ new_kill_timeout = 0
    /\ res = [rejected |-> FALSE, retry_after |-> -1]
    /\ r = None
    /\ exc = NoResult
    /\ result = NoResult
    /\ sent = 0
    /\ backoffs = <<>>
    /\ waits = 0
    /\ consults = 0
    /\ checks = <<>>
    /\ log \in BOOLEAN
    /\ mask_raises \in IF log THEN BOOLEAN ELSE {FALSE}
    /\ frame = <<>>
    /\ alarm = None
    /\ fired = FALSE
    /\ timed_out = TRUE
    /\ resp = None
    /\ hops = 0
    /\ config = "none"
    /\ stack = <<>>
    /\ added = [i \in Filters |-> <<>>]
    /\ written = None
    /\ last_start = None
    /\ page_num = 0
    /\ keep_going = TRUE
    /\ nb_dl = 0
    /\ yielded = <<>>

NextScoped ==
    \/ RequestUrl
    \/ WhileExit
    \/ WhileFirst
    \/ BackoffRaise
    \/ BackoffSleep
    \/ BudgetRaise
    \/ BudgetPass
    \/ LimiterNone
    \/ LimiterAllowed
    \/ LimiterRaise
    \/ LimiterSleep
    \/ OnceEnter
    \/ TransportResponse
    \/ TransportError
    \/ AlarmInTransport
    \/ FlagNotTimedOut
    \/ AlarmBeforeFlag
    \/ ScopeExit
    \/ AlarmInExit
    \/ TimedOutRaise
    \/ OnceReturnRecorderRaises
    \/ OnceReturn
    \/ OnceRaiseRecorderRaises
    \/ OnceRaise
    \/ ExceptRaise
    \/ ExceptContinue
    \/ ClassifyWeird
    \/ ClassifySuccess
    \/ ClassifyFatal
    \/ ClassifyRetry

SpecScoped == InitScoped /\ [][NextScoped]_vars

-----------------------------------------------------------------------------
(* Properties of the attempt: the hard timeout, the timer, the recorder *)

\* C15: whatever kill timeout T >= 0 the attempt is given, a transport call
\* that has not ended T seconds after its start is aborted and the attempt
\* ends with RequestTimeout, and a transport call that ends before T gives
\* its own result (a response, or its own error).
C15_HardTimeout ==
    [][(pc = "send" /\ pc' # "send") =>
         LET T == new_kill_timeout
             d == clock' - clock
         IN  IF d >= 1000 * T
             THEN pc' = "except" /\ exc' = RequestTimeout(T)
             ELSE \/ pc' = "classify" /\ r' # None
                  \/ pc' = "except" /\ exc' = RequestException]_vars

\* the positions of _request_url_once between __enter__ and the end of __exit__
InScope == pc \in {"body", "assigned", "exit"}

\* C16: the timer is set only inside the scope of the transport call: none
\* is left when the scope was left, whichever way, none is set during
\* backoff sleeps, limiter waits or after the return of request_url, and a
\* timer is set only when none is.
C16_NoResidualTimer ==
    /\ [](alarm # None => InScope)
    /\ [][(alarm' # None /\ alarm' # alarm) => (alarm = None /\ pc = "send")]_vars

\* a transport error left a scope whose timer was set, and the call went on
C16_Witness ==
    /\ pc = "while"
    /\ new_kill_timeout = 1
    /\ sent = 1
    /\ r = None
    /\ ~fired
    /\ alarm = None
    /\ tries < strategy.tries

\* C17: the attempt ends with RequestTimeout exactly when the timer went off
\* and the transport gave no response; a response the transport returned is
\* the result of the attempt wherever the timer goes off before the scope
\* is left; the attempt ends with a response or with an error.
C17_TimeoutOrCompletion ==
    [][(pc \in {"after", "failed"} /\ pc' \in {"classify", "except"}) =>
         /\ (pc' = "except" /\ exc'.kind = "RequestTimeout")
              <=> (fired /\ resp = None)
         /\ resp # None => (pc' = "classify" /\ r' = resp)
         /\ pc' = "classify" => r' # None
         /\ pc' = "except" => exc' # NoResult]_vars

\* the order of the positions of one iteration of request_url's loop
StepOrder ==
    { <<"idle", "while">>, <<"while", "budget">>, <<"while", "done">>,
      <<"budget", "limiter">>, <<"budget", "except">>,
      <<"limiter", "send">>, <<"limiter", "except">>,
      <<"send", "body">>, <<"body", "assigned">>, <<"body", "exit">>,
      <<"assigned", "exit">>, <<"exit", "after">>, <<"exit", "failed">>,
      <<"after", "failed">>, <<"after", "classify">>, <<"after", "except">>,
      <<"failed", "except">>,
      <<"classify", "while">>, <<"classify", "done">>,
      <<"except", "while">>, <<"except", "done">> }

\* one step of the call keeps the order of the iteration; the attempt is
\* recorded in a step taken from one of the positions recordFrom.  The
\* classification and the decision are the steps taken from "classify"
\* (lines 159-186) and "except" (lines 149-157).
StepInOrder(recordFrom) ==
    /\ pc' # pc => <<pc, pc'>> \in StepOrder
    /\ backoffs' # backoffs => (pc = "while" /\ pc' = "budget")
    /\ tries' # tries => pc = "budget"
    /\ consults' # consults => pc = "limiter"
    /\ (alarm' # alarm /\ alarm' # None) => (pc = "send" /\ alarm = None)
    /\ sent' # sent =>
         (pc = "send" /\ sent' = sent + 1 /\ tries = sent' /\ exc = NoResult)
    /\ (resp' # resp /\ resp' # None) => pc = "body"
    /\ frame' # frame => pc \in recordFrom
    /\ result' # result => (pc \in {"while", "classify", "except"} /\ pc' = "done")
    /\ (pc = "budget" /\ SendOverBudget)
         => (pc' = "except" /\ exc'.kind = "RequestFailure")
    /\ (pc = "except" /\ exc.kind = "RequestFailure") => pc' = "done"

\* C18 as claimed: backoff sleep, budget check, limiter consult, timeout and
\* transport call, classification, recording, decision, in this order: the
\* attempt is recorded once it was classified.  Attempts do not overlap and
\* no transport call starts in an iteration whose budget check failed.
C18_StepOrder == [][StepInOrder({"classify", "except"})]_vars

\* C18 as amended: the attempt is recorded inside _request_url_once, after
\* the transport call and before request_url classifies its outcome and
\* decides; the rest of the order is as claimed.
C18_StepOrderRecordFirst ==
    [][/\ StepInOrder({"after", "failed"})
       /\ (log /\ pc \in {"after", "failed"} /\ pc' \in {"classify", "except"})
            => frame' # frame]_vars

\* a recorded call with a rate limiter that went through two whole iterations
C18_Witness ==
    /\ log
    /\ pc = "done"
    /\ result.kind = "return"
    /\ sent = 2
    /\ Len(backoffs) = 1
    /\ consults = 2
    /\ Len(frame) >= 6

\* the frame f is made of whole groups, the first one of attempt k: the
\* request part and the outcome part of hops 1..n, then the timing part
RECURSIVE WellGrouped(_, _)
WellGrouped(f, k) ==
    \/ f = <<>>
    \/ \E n \in 1..((Len(f) - 1) \div 2) :
         /\ \A i \in 1..n :
              /\ f[2 * i - 1] = Part("request", k, i, "request")
              /\ f[2 * i].type = "response"
              /\ f[2 * i].attempt = k /\ f[2 * i].hop = i
              /\ f[2 * i].body \in {"response", "exception"}
              /\ f[2 * i].body = "exception" => n = 1
         /\ f[2 * n + 1] = Part("timing-hint", k, 0, "timer")
         /\ WellGrouped(SubSeq(f, 2 * n + 2, Len(f)), k + 1)

Groups(f) == Cardinality({i \in 1..Len(f) : f[i].type = "timing-hint"})

\* the attempts that ended, by a return or by an exception
AttemptsEnded ==
    IF pc \in {"body", "assigned", "exit", "after", "failed"} THEN sent - 1 ELSE sent

IsPrefix(f, g) == Len(f) <= Len(g) /\ SubSeq(g, 1, Len(f)) = f

\* C20: with a recorder, every attempt appends one group to the frame: for
\* each hop, in order and the final one last, a request part and then its
\* outcome part, and then the timing part; what is in the frame is never
\* changed; the groups are in the order of the attempts and as many as the
\* attempts.
C20_FrameShape ==
    /\ [](log => (WellGrouped(frame, 1) /\ Groups(frame) = AttemptsEnded))
    /\ [][IsPrefix(frame, frame')]_vars

-----------------------------------------------------------------------------
(* RequestStrategy.normal_response_codes and fatal_response_codes *)

\* an entry of the list given to a setter: a str, or something else (an int)
\* that prints as text
StrEntry(t) == [isstr |-> TRUE, text |-> t]

IntEntry(t) == [isstr |-> FALSE, text |-> t]

ConfigEntries ==
    { StrEntry(<<"4", "0", "4">>), StrEntry(<<"5", "9", "9">>),
      StrEntry(<<"3", "9", "9">>), StrEntry(<<"6", "0", "0">>),
      StrEntry(<<" ", "4", "0", "4">>), StrEntry(<<"0", "4", "0", "4">>),
      StrEntry(<<"4", "x", "x">>), StrEntry(<<"4", "0", "x">>),
      StrEntry(<<"5", "x", "x">>), StrEntry(<<"4">>),
      StrEntry(<<"4", "z", "z">>), StrEntry(<<"x", "0", "4">>),
      IntEntry(<<"4", "0", "4">>) }

\* the lists of at most two entries
CodeLists ==
    {<<>>} \cup {<<a>> : a \in ConfigEntries}
           \cup {<<a, b>> : a \in ConfigEntries, b \in ConfigEntries}

IsDigit(c) == \E i \in 1..10 : Digits[i] = c

DigitValue(c) == (CHOOSE i \in 1..10 : Digits[i] = c) - 1

\* s.strip() for blanks
RECURSIVE Strip(_)
Strip(s) ==
    IF s = <<>> THEN s
    ELSE IF Head(s) = " " THEN Strip(Tail(s))
    ELSE IF s[Len(s)] = " " THEN Strip(SubSeq(s, 1, Len(s) - 1))
    ELSE s

RECURSIVE DigitsValue(_)
DigitsValue(s) ==
    IF s = <<>> THEN 0
    ELSE 10 * DigitsValue(SubSeq(s, 1, Len(s) - 1)) + DigitValue(s[Len(s)])

\* int(s) of a str: blanks around and a sign are taken, anything else than
\* digits is a ValueError (None)
IntOf(s) ==
    LET t == Strip(s)
        signed == t # <<>> /\ Head(t) \in {"+", "-"}
        u == IF signed THEN Tail(t) ELSE t
    IN  IF u = <<>> \/ \E i \in 1..Len(u) : ~IsDigit(u[i]) THEN None
        ELSE IF signed /\ Head(t) = "-" THEN Some(0 - DigitsValue(u))
        ELSE Some(DigitsValue(u))

\* request.py lines 71-73: the loop over the list; "ok" or the exception raised
RECURSIVE NormalCheck(_)
NormalCheck(codes) ==
    IF codes = <<>> THEN "ok"
    ELSE LET code == Head(codes)
         IN  IF ~code.isstr THEN "Exception"
             ELSE IF IntOf(code.text) = None THEN "ValueError"
             ELSE IF Val(IntOf(code.text)) < 400 \/ Val(IntOf(code.text)) >= 600
                  THEN "Exception"
             ELSE NormalCheck(Tail(codes))

\* request.py lines 78-80
RECURSIVE FatalCheck(_)
FatalCheck(codes) ==
    IF codes = <<>> THEN "ok"
    ELSE LET code == Head(codes)
         IN  IF ~code.isstr
                \/ (Slice(code.text, 0, 1) # <<"4">> /\ Slice(code.text, 0, 1) # <<"5">>)
             THEN "Exception"
             ELSE FatalCheck(Tail(codes))

Texts(codes) == {codes[i].text : i \in DOMAIN codes}

\* request.py lines 70-75 with the list stored before it is looked at
normal_response_codesStoreFirst ==
    /\ pc = "idle"
    /\ \E codes \in CodeLists :
         /\ config' = NormalCheck(codes)
         /\ strategy' = [strategy EXCEPT !.normal_codes = Texts(codes)]
    /\ UNCHANGED <<gcra, clock, pc, tries, start_ts, new_kill_timeout, res, r, exc,
                   result, sent, backoffs, waits, consults, checks, log,
                   mask_raises, frame, alarm, fired, timed_out, resp, hops,
                   masks, pager, last_start>>

\* request.py lines 70-75
normal_response_codes ==
    /\ pc = "idle"
    /\ \E codes \in CodeLists :
         /\ config' = NormalCheck(codes)
         /\ strategy' = IF NormalCheck(codes) = "ok"
                        THEN [strategy EXCEPT !.normal_codes = Texts(codes)]
                        ELSE strategy
    /\ UNCHANGED <<gcra, clock, pc, tries, start_ts, new_kill_timeout, res, r, exc,
                   result, sent, backoffs, waits, consults, checks, log,
                   mask_raises, frame, alarm, fired, timed_out, resp, hops,
                   masks, pager, last_start>>

\* request.py lines 77-82
fatal_response_codes ==
    /\ pc = "idle"
    /\ \E codes \in CodeLists :
         /\ config' = FatalCheck(codes)
         /\ strategy' = IF FatalCheck(codes) = "ok"
                        THEN [strategy EXCEPT !.fatal_codes = Texts(codes)]
                        ELSE strategy
    /\ UNCHANGED <<gcra, clock, pc, tries, start_ts, new_kill_timeout, res, r, exc,
                   result, sent, backoffs, waits, consults, checks, log,
                   mask_raises, frame, alarm, fired, timed_out, resp, hops,
                   masks, pager, last_start>>

\* request.py lines 45-48: a strategy as its constructor leaves it, codes unset
InitConfig ==
    /\ NoCall
    /\ gcra = [limit |-> None, emission_interval |-> 1000]
    /\ clock = 0
    /\ res = [rejected |-> FALSE, retry_after |-> -1]
    /\ consults = 0
    /\ AuxInit

NextConfig ==
    \/ normal_response_codes
    \/ fatal_response_codes

SpecConfig == InitConfig /\ [][NextConfig]_vars

\* a 3-digit decimal string between 400 and 599
ClaimNormalCode(c) ==
    /\ Len(c) = 3
    /\ \A i \in 1..3 : IsDigit(c[i])
    /\ c[1] \in {"4", "5"}

\* a 3-digit code, DDx or Dxx, starting with 4 or 5
ClaimFatalCode(c) ==
    /\ Len(c) = 3
    /\ c[1] \in {"4", "5"}
    /\ \/ IsDigit(c[2]) /\ IsDigit(c[3])
       \/ IsDigit(c[2]) /\ c[3] = "x"
       \/ c[2] = "x" /\ c[3] = "x"

\* C19: the setters accept only lists of well-formed codes (normal: 3-digit
\* strings from 400 to 599; fatal: 3 digits, DDx or Dxx starting with 4 or
\* 5), so the strategy never holds a malformed code or pattern.
C19_OnlyWellFormedCodes ==
    /\ \A c \in strategy.normal_codes : ClaimNormalCode(c)
    /\ \A c \in strategy.fatal_codes : ClaimFatalCode(c)

-----------------------------------------------------------------------------
(* The recorder and the control flow of request_url *)

\* C21: a failure of the recorder (a masking rule that raises inside dump or
\* dump_failed) does not abort the loop: what the recorder raised never
\* leaves _request_url_once and is never raised to the caller of
\* request_url.
C21_RecorderNeverAborts ==
    /\ exc.kind # TypeError.kind
    /\ result.kind # TypeError.kind


(* HeaderFilter and the headers the recorder writes *)
\* A header value is a sequence of tokens: a word, the blank " ", the dot ".",
\* the colon ":" or a base64 blob, which B64 decodes.

MaxRules == 2

\* str.lower()
LowerTable ==
    [t \in {"Authorization", "X-Api-Key", "Basic", "Bearer", "Digest"} |->
        CASE t = "Authorization" -> "authorization"
          [] t = "X-Api-Key" -> "x-api-key"
          [] t = "Basic" -> "basic"
          [] t = "Bearer" -> "bearer"
          [] t = "Digest" -> "digest"]

Lower(t) == IF t \in DOMAIN LowerTable THEN LowerTable[t] ELSE t

LowerAll(s) == [i \in 1..Len(s) |-> Lower(s[i])]

\* base64.b64decode(x).decode() and base64.urlsafe_b64decode(x + "===").decode():
\* the text a blob encodes; anything else raises
B64 ==
    [t \in {"b64(alice:pw1)", "b64(alice:pw2)", "b64(header)", "b64(body)"} |->
        CASE t = "b64(alice:pw1)" -> <<"alice", ":", "pw1">>
          [] t = "b64(alice:pw2)" -> <<"alice", ":", "pw2">>
          [] t = "b64(header)" -> <<"{alg}">>
          [] t = "b64(body)" -> <<"{sub}">>]

Decodable(s) == Len(s) = 1 /\ s[1] \in DOMAIN B64

IndexOf(s, c) ==
    IF \E i \in 1..Len(s) : s[i] = c
    THEN CHOOSE i \in 1..Len(s) : s[i] = c /\ \A j \in 1..(i - 1) : s[j] # c
    ELSE 0

\* s.split(c, 1)
Split1(s, c) ==
    LET i == IndexOf(s, c)
    IN  IF i = 0 THEN <<s>> ELSE <<SubSeq(s, 1, i - 1), SubSeq(s, i + 1, Len(s))>>

\* s.split(c)
RECURSIVE SplitAll(_, _)
SplitAll(s, c) ==
    LET i == IndexOf(s, c)
    IN  IF i = 0 THEN <<s>>
        ELSE <<SubSeq(s, 1, i - 1)>> \o SplitAll(SubSeq(s, i + 1, Len(s)), c)

\* the closures mask_by_name and mask_authorization put on the stack
ByName(header_name) == [fn |-> "mask_by_name", header_name |-> header_name]
Authorization == [fn |-> "mask_authorization", header_name |-> ""]

Rules == {ByName("Authorization"), ByName("X-Api-Key"), Authorization}

\* what a rule gives: the header it returns, or the exception it raises
Masked(name, value, isbytes) ==
    [raised |-> FALSE, name |-> name, value |-> value, isbytes |-> isbytes]
MaskRaised(h) == [h EXCEPT !.raised = TRUE]

\* fn of mask_by_name, show_first_chars None
fn_by_name(rule, h) ==
    IF Lower(h.name) # Lower(rule.header_name)
    THEN h
    ELSE Masked(h.name, <<"<<masked>>">>, FALSE)

\* fn of mask_authorization
fn_authorization(h) ==
    IF Lower(h.name) # "authorization" THEN h
    ELSE IF h.isbytes THEN MaskRaised(h)
    ELSE LET parts == Split1(h.value, " ")
         IN  IF Len(parts) # 2 THEN h
             ELSE LET type == LowerAll(parts[1])
                      basic == IF Decodable(parts[2])
                               THEN Split1(B64[parts[2][1]], ":")
                               ELSE <<(<<"?">>)>>
                      jwt == SplitAll(parts[2], ".")
                      jwtout == IF Decodable(jwt[1]) /\ Decodable(jwt[2])
                                THEN <<B64[jwt[1][1]], B64[jwt[2][1]]>>
                                ELSE <<(<<"?">>), (<<"?">>)>>
                      cval ==
                        IF type = <<"basic">>
                        THEN parts[1] \o <<" ", "<<masked password, username=">>
                                 \o basic[1] \o <<">>">>
                        ELSE IF type = <<"bearer">>
                        THEN IF Len(jwt) = 3
                             THEN parts[1] \o <<" ", "<<masked JWT, header=">>
                                      \o jwtout[1] \o <<", body=">> \o jwtout[2]
                                      \o <<">>">>
                             ELSE parts[1] \o <<" ", "<<masked opaque token>>">>
                        ELSE parts[1] \o <<" ", "<<masked>>">>
                  IN  Masked(h.name, cval, FALSE)

Mask(rule, h) ==
    IF rule.fn = "mask_by_name" THEN fn_by_name(rule, h) ELSE fn_authorization(h)

\* the loop of _write_headers over header_filter.stack; an exception ends it
RECURSIVE ApplyStack(_, _)
ApplyStack(rules, h) ==
    IF rules = <<>> \/ h.raised THEN h
    ELSE ApplyStack(Tail(rules), Mask(Head(rules), h))

\* header_filter.stack: an instance has no stack of its own, the attribute
\* is the one of the class
StackOf(i) == stack

\* the values of an Authorization header
AuthValues ==
    { <<"Basic", " ", "b64(alice:pw1)">>,
      <<"Basic", " ", "b64(alice:pw2)">>,
      <<"basic", " ", "pw1">>,
      <<"Bearer", " ", "b64(header)", ".", "b64(body)", ".", "sig1">>,
      <<"Bearer", " ", "b64(header)", ".", "b64(body)", ".", "sig2">>,
      <<"Bearer", " ", "pw1", ".", "b64(body)", ".", "sig1">>,
      <<"Bearer", " ", "tok1">>,
      <<"Digest", " ", "tok1">>,
      <<"tok1">>,
      <<"tok2">> }

HeaderInputs ==
    { Masked(n, v, FALSE) : n \in {"Authorization", "authorization"},
                            v \in AuthValues }
    \cup { Masked("Authorization", <<"Basic", " ", "b64(alice:pw1)">>, TRUE),
           Masked("X-Api-Key", <<"tok1">>, FALSE),
           Masked("Accept", <<"json">>, FALSE) }

InitMasks ==
    /\ NoCall
    /\ gcra = [limit |-> None, emission_interval |-> 1000]
    /\ clock = 0
    /\ res = None
    /\ consults = 0
    /\ AuxInit

others == <<strategy, gcra, clock, pc, tries, start_ts, new_kill_timeout, res, r,
            exc, result, sent, backoffs, waits, consults, checks, log,
            mask_raises, frame, alarm, fired, timed_out, resp, hops, config,
            pager, last_start>>

mask_by_name(i, header_name) ==
    /\ Len(stack) < MaxRules
    /\ stack' = Append(stack, ByName(header_name))
    /\ added' = [added EXCEPT ![i] = Append(@, ByName(header_name))]
    /\ UNCHANGED <<written, others>>

mask_authorization(i) ==
    /\ Len(stack) < MaxRules
    /\ stack' = Append(stack, Authorization)
    /\ added' = [added EXCEPT ![i] = Append(@, Authorization)]
    /\ UNCHANGED <<written, others>>

write_headers(i, h) ==
    /\ written' = Some([filter |-> i, header |-> h, rules |-> StackOf(i),
                        out |-> ApplyStack(StackOf(i), h)])
    /\ UNCHANGED <<stack, added, others>>

NextMasks ==
    \/ \E i \in Filters, n \in {"Authorization", "X-Api-Key"} : mask_by_name(i, n)
    \/ \E i \in Filters : mask_authorization(i)
    \/ \E i \in Filters, h \in HeaderInputs : write_headers(i, h)

SpecMasks == InitMasks /\ [][NextMasks]_vars

\* C22: the rule chain of each HeaderFilter instance holds exactly the rules
\* added through that instance, so that request headers go through the rules
\* of the request filter only and response headers through those of the
\* response filter only.
C22_IndependentChains == \A i \in Filters : StackOf(i) = added[i]

\* the part of a header value that must not be recorded
SecretTokens == {"pw1", "pw2", "sig1", "sig2", "tok1", "tok2",
                 "b64(alice:pw1)", "b64(alice:pw2)"}

Leaks(value) == \E k \in 1..Len(value) : value[k] \in SecretTokens

\* C23: an Authorization header written through a chain that holds the
\* authorization rule is recorded, whatever the shape of its value, without an
\* exception and without its secret part: password, signature or token.
C23_AuthorizationMasked ==
    \A k \in 1..Len(written) :
        ( /\ Lower(written[k].header.name) = "authorization"
          /\ \E j \in 1..Len(written[k].rules) :
                 written[k].rules[j] = Authorization )
        => /\ ~written[k].out.raised
           /\ ~Leaks(written[k].out.value)


-----------------------------------------------------------------------------
(* The strategy, the limiter and the budget during request_url *)

\* C24: no step of request_url changes the strategy (tries, total time, kill
\* timeout, backoff parameters, normal and fatal codes), also when the try
\* runs under a smaller kill timeout than the strategy's; of the rate limiter
\* only the stored limit may change.
C24_StrategyReadOnly ==
    [][ /\ strategy' = strategy
        /\ gcra'.emission_interval = gcra.emission_interval ]_vars

C24_Witness ==
    /\ pc = "done"
    /\ sent = 2
    /\ new_kill_timeout < strategy.kill_timeout_s
    /\ strategy.rate_limiter
    /\ waits = 1

\* a step that starts a transport call
Starts == sent' = sent + 1

\* C26: with a rate limiter, a transport call starts at least one emission
\* interval after the transport call before it started.
C26_EnginePacing ==
    [][ (Starts /\ strategy.rate_limiter /\ last_start # None)
        => clock - Val(last_start) >= gcra.emission_interval ]_vars

\* C27: with a total time budget, the kill timeout a transport call runs
\* under is at most the ceiling of the budget left when the call starts.
C27_KillTimeoutAtSend ==
    [][ (Starts /\ Truthy(strategy.total_time))
        => new_kill_timeout <= CeilSeconds(MaxTimeLeft) ]_vars

C30_ZeroBudgetEnforced ==
    strategy.total_time = Some(0) =>
        /\ sent = 0
        /\ pc = "done" => BudgetExhausted


-----------------------------------------------------------------------------
(* Termination *)

\* every statement of request_url ends: a transport call returns, raises or
\* is killed, a sleep ends; the interpreter goes on to the next statement
SpecTerminating == Spec /\ WF_vars(Next)

-----------------------------------------------------------------------------
(* PaginatedFetcher.request_url with a LinkPaginator *)
\* pc is "page" at the head of the generator's loop, "finished" when the
\* generator is exhausted and "raised" when an exception left it.

MaxPage == 1

\* LinkPaginator.page_num_start
page_num_start == 0

\* what a response says of the next page: whether it has a rel=next link and
\* the values of the page_num_attr argument in the query of that link
Link(present, pages) == [present |-> present, pages |-> pages]

NextLinks ==
    { Link(FALSE, <<>>), Link(TRUE, <<>>), Link(TRUE, <<Str(0), Str(1)>>),
      Link(TRUE, <<(<<"x">>)>>) }
    \cup { Link(TRUE, <<Str(n)>>) : n \in 0..MaxPage }

\* pagination.py lines 85-108 without the comparison with the current page
inspect_responseUnchecked(link) ==
    IF ~link.present \/ Len(link.pages) # 1
    THEN [raised |-> "none", found |-> 0, page_num |-> page_num,
          keep_going |-> FALSE]
    ELSE LET n == IntOf(link.pages[1])
         IN  IF n = None
             THEN [raised |-> "ValueError", found |-> 0, page_num |-> page_num,
                   keep_going |-> keep_going]
             ELSE [raised |-> "none", found |-> Val(n), page_num |-> Val(n),
                   keep_going |-> TRUE]

\* pagination.py lines 85-108: what inspect_response raises and what it
\* leaves in page_num and keep_going
inspect_response(link) ==
    IF ~link.present \/ Len(link.pages) # 1
    THEN [raised |-> "none", found |-> 0, page_num |-> page_num,
          keep_going |-> FALSE]
    ELSE LET n == IntOf(link.pages[1])
         IN  IF n = None
             THEN [raised |-> "ValueError", found |-> 0, page_num |-> page_num,
                   keep_going |-> keep_going]
             ELSE IF Val(n) <= page_num
             THEN [raised |-> "Exception", found |-> Val(n),
                   page_num |-> page_num, keep_going |-> keep_going]
             ELSE [raised |-> "none", found |-> Val(n), page_num |-> Val(n),
                   keep_going |-> TRUE]

\* a strategy, a limiter never used and a pager an earlier run may have used
InitPaged ==
    /\ strategy \in
         { [tries |-> t, total_time |-> tt, kill_timeout_s |-> 1,
            backoff_mul |-> 500, backoff_exp |-> 2,
            normal_codes |-> {}, fatal_codes |-> {<<"4", "0", "x">>},
            rate_limiter |-> rl] :
           t \in 1..2, tt \in {None, Some(900), Some(1010)}, rl \in BOOLEAN }
    /\ gcra = [limit |-> None, emission_interval |-> 1000]
    /\ clock = 0
    /\ pc = "idle"
    /\ tries = 0
    /\ start_ts = 0
    /\ new_kill_timeout = 0
    /\ res = [rejected |-> FALSE, retry_after |-> -1]
    /\ r = None
    /\ exc = NoResult
    /\ result = NoResult
    /\ sent = 0
    /\ backoffs = <<>>
    /\ waits = 0
    /\ consults = 0
    /\ checks = <<>>
    /\ log = FALSE
    /\ mask_raises = FALSE
    /\ frame = <<>>
    /\ alarm = None
    /\ fired = FALSE
    /\ timed_out = TRUE
    /\ resp = None
    /\ hops = 0
    /\ config = "none"
    /\ stack = <<>>
    /\ added = [i \in Filters |-> <<>>]
    /\ written = None
    /\ last_start = None
    /\ page_num \in {page_num_start, MaxPage}
    /\ keep_going \in BOOLEAN
    /\ nb_dl \in {0, 1}
    /\ yielded = <<>>

\* apifetch.py lines 309-314, pagination.py lines 68-71: the generator starts
PaginatedRequestUrl ==
    /\ pc = "idle"
    /\ page_num' = page_num_start
    /\ keep_going' = TRUE
    /\ nb_dl' = 0
    /\ pc' = "page"
    /\ UNCHANGED <<strategy, gcra, clock, tries, start_ts, new_kill_timeout, res,
                   r, exc, result, sent, backoffs, waits, consults, unpaged,
                   yielded, last_start>>

\* apifetch.py lines 316-318 and 62-63 with the count of tries of the page
\* before kept
PageCallKeepTries ==
    /\ pc = "page"
    /\ keep_going
    /\ start_ts' = clock
    /\ r' = None
    /\ exc' = NoResult
    /\ result' = NoResult
    /\ sent' = 0
    /\ backoffs' = <<>>
    /\ waits' = 0
    /\ consults' = 0
    /\ pc' = "while"
    /\ UNCHANGED <<strategy, gcra, clock, tries, new_kill_timeout, res, unpaged,
                   pager, last_start>>

\* apifetch.py lines 316-318, pagination.py lines 73-83 and 110-111, apifetch.py
\* lines 62-63: one more page, asked for with page_num; the call of
\* fetcher.request_url starts
PageCall ==
    /\ pc = "page"
    /\ keep_going
    /\ tries' = 0
    /\ start_ts' = clock
    /\ r' = None
    /\ exc' = NoResult
    /\ result' = NoResult
    /\ sent' = 0
    /\ backoffs' = <<>>
    /\ waits' = 0
    /\ consults' = 0
    /\ pc' = "while"
    /\ UNCHANGED <<strategy, gcra, clock, new_kill_timeout, res, unpaged, pager,
                   last_start>>

\* apifetch.py line 316 false: the generator ends
PageEnd ==
    /\ pc = "page"
    /\ ~keep_going
    /\ pc' = "finished"
    /\ UNCHANGED <<strategy, gcra, clock, tries, start_ts, new_kill_timeout, res,
                   r, exc, result, sent, backoffs, waits, consults, aux>>

\* apifetch.py lines 318-320, pagination.py lines 85-108: the response is
\* inspected and yielded
PageYield ==
    /\ pc = "done"
    /\ result.kind = "return"
    /\ \E link \in NextLinks :
         LET v == inspect_response(link)
         IN  /\ v.raised = "none"
             /\ nb_dl' = nb_dl + 1
             /\ page_num' = v.page_num
             /\ keep_going' = v.keep_going
             /\ yielded' = Append(yielded,
                     [page |-> page_num, status |-> result.n, link |-> link,
                      next |-> IF v.keep_going THEN Some(v.page_num) ELSE None,
                      sent |-> sent, start_ts |-> start_ts])
    /\ pc' = "page"
    /\ UNCHANGED <<strategy, gcra, clock, tries, start_ts, new_kill_timeout, res,
                   r, exc, result, sent, backoffs, waits, consults, unpaged,
                   last_start>>

\* pagination.py lines 86, 97-104: the next page is not after the current
\* one, or is not a number
PageInspectRaise ==
    /\ pc = "done"
    /\ result.kind = "return"
    /\ \E link \in NextLinks :
         LET v == inspect_response(link)
         IN  /\ v.raised # "none"
             /\ result' = [kind |-> v.raised, why |-> "next page", n |-> v.found]
    /\ nb_dl' = nb_dl + 1
    /\ pc' = "raised"
    /\ UNCHANGED <<strategy, gcra, clock, tries, start_ts, new_kill_timeout, res,
                   r, exc, sent, backoffs, waits, consults, unpaged, page_num,
                   keep_going, yielded, last_start>>

\* apifetch.py line 318: fetcher.request_url raises
PageRaise ==
    /\ pc = "done"
    /\ result.kind # "return"
    /\ pc' = "raised"
    /\ UNCHANGED <<strategy, gcra, clock, tries, start_ts, new_kill_timeout, res,
                   r, exc, result, sent, backoffs, waits, consults, aux>>

NextPaged ==
    \/ PaginatedRequestUrl
    \/ PageCall
    \/ PageEnd
    \/ PageYield
    \/ PageInspectRaise
    \/ PageRaise
    \/ WhileExit
    \/ WhileFirst
    \/ BackoffRaise
    \/ BackoffSleep
    \/ BudgetRaise
    \/ BudgetPass
    \/ LimiterNone
    \/ LimiterAllowed
    \/ LimiterRaise
    \/ LimiterSleep
    \/ SendResponse
    \/ SendError
    \/ SendTimeout
    \/ ExceptRaise
    \/ ExceptContinue
    \/ ClassifyWeird
    \/ ClassifySuccess
    \/ ClassifyFatal
    \/ ClassifyRetry

SpecPaged == InitPaged /\ [][NextPaged]_vars


\* a step that calls fetcher.request_url for one more page
PageStarts == pc = "page" /\ pc' = "while"

NamesPage(link) == link.present /\ Len(link.pages) = 1

\* a step in which inspect_response raises
InspectRaises == pc = "done" /\ result.kind = "return" /\ pc' = "raised"

\* C31: between two resets page_num only goes up; a next link that names a
\* page not after the current one raises and leaves page_num as it was; a
\* response with no next link, or whose link does not hold the page argument
\* exactly once, makes has_more() false; reset() gives the start page and
\* has_more() true; no page is asked for twice in one run of the generator.
C31_PagerProgress ==
    /\ [][ (pc # "idle" /\ page_num' # page_num) => page_num' > page_num ]_vars
    /\ [][ InspectRaises =>
             /\ page_num' = page_num
             /\ result'.kind = "Exception" => result'.n <= page_num ]_vars
    /\ [][ (pc = "idle" /\ pc' # "idle") =>
             page_num' = page_num_start /\ keep_going' ]_vars
    /\ [] ( \A k \in 1..Len(yielded) :
              LET e == yielded[k]
              IN  /\ ~NamesPage(e.link) => e.next = None
                  /\ NamesPage(e.link) =>
                       /\ IntOf(e.link.pages[1]) # None
                       /\ Val(IntOf(e.link.pages[1])) > e.page
                       /\ e.next = IntOf(e.link.pages[1])
                  /\ (e.next = None /\ k = Len(yielded) /\ pc = "page")
                       => ~keep_going
                  /\ \A j \in 1..(k - 1) : yielded[j].page < e.page
                  /\ (pc = "page" /\ keep_going) => e.page < page_num )

C31_Witness ==
    /\ pc = "raised"
    /\ result.kind = "Exception"
    /\ Len(yielded) = 1
    /\ page_num = 1
    /\ result.n = 1


-----------------------------------------------------------------------------
(* A setter of the strategy that rejects its list *)

\* the last call of a setter raised
Rejected(c) == c \in {"Exception", "ValueError"}

\* C32: a call of normal_response_codes or fatal_response_codes that rejects
\* its list, wherever the invalid entry stands in it, leaves the normal codes,
\* the fatal codes and every other field of the strategy as they were.
C32_RejectedListKeepsStrategy ==
    [][ Rejected(config') => strategy' = strategy ]_vars

C32_Witness ==
    /\ Rejected(config)
    /\ strategy.normal_codes = {<<"4", "0", "4">>, <<"5", "9", "9">>}
    /\ strategy.fatal_codes = {<<"5", "x", "x">>}

====
